---- MODULE Spec2Model ----
(***************************************************************************)
(* Model of dpgbdt's model.py: the exponential-mechanism selector, the     *)
(* ensemble training loop, best-leaf-first tree growth, leaf               *)
(* post-processing and the combination of 3-node trees.                    *)
(*                                                                         *)
(* Numbers.  Python floats are modelled by exact rationals <<n, d>> with   *)
(* d > 0.  Gains handed to the selector are integers counted in units of   *)
(* ln 2, so that np.exp(gain) is exactly 2^gain; the float64 range is      *)
(* scaled down to 2^-ExpMax .. 2^(ExpMax+1), outside of which an operation *)
(* raises FloatingPointError as it does under np.errstate(all='raise').    *)
(* An optional value (Python None) is a sequence of length 0 or 1.         *)
(* The training loop computes in integers: labels are multiples of the    *)
(* number of rows, so the mean of line 119 is integral, and trees predict  *)
(* integers.  DecisionNode objects live in a heap and are named by their   *)
(* position in it, so that a list may hold the same object twice.  The     *)
(* noise of AddLaplacianNoise is the stream np.random.seed(0) fixes.       *)
(***************************************************************************)
EXTENDS Integers, Sequences, FiniteSets, TLC

VARIABLES
  em_pc,            \* "call" before ExponentialMechanism runs, "done" after
  em_gains,         \* prob['gain'] of each candidate of `probabilities`
  em_reverse,       \* the reverse argument
  em_random_prob,   \* numerator of the uniform draw, over DrawDen
  em_probability,   \* prob['probability'] of each candidate before line 1043
  em_result         \* None, or Some(position of the returned candidate)

emVars == <<em_pc, em_gains, em_reverse, em_random_prob, em_probability,
            em_result>>

VARIABLES
  tr_pc,                  \* "idle", "loop" (before an iteration of line 131),
                          \* "done" (Train returned), "raised" (an exception)
  nb_trees,               \* constructor arguments
  nb_trees_per_ensemble,
  balance_partition,
  tree_index,             \* the loop variable of line 131
  trees,                  \* self.trees
  X_ensemble,             \* the working set: ids of the rows still in it
  y_ensemble,             \* their labels
  gradients,              \* None, or Some(the gradients array)
  update_gradients,
  prev_rmse,              \* None for np.inf, or Some(best squared error)
  tr_last,                \* what the last iteration did (history)
  tr_predict,             \* the last call of Predict (history)
  tr_rejected,            \* the tree_index of each tree removed at line 235
                          \* (history)
  tr_fitted               \* the trees kept in the running cycle, each with
                          \* the rows of X_tree it was fitted on (history)

trVars == <<tr_pc, nb_trees, nb_trees_per_ensemble, balance_partition,
            tree_index, trees, X_ensemble, y_ensemble, gradients,
            update_gradients, prev_rmse, tr_last, tr_predict, tr_rejected,
            tr_fitted>>

VARIABLES
  t_pc,                   \* "idle", "fit" (before Fit), "expand" (before a call
                          \* of _ExpandTreeBFS), "assign" (before line 683),
                          \* "built" (before line 584), "clipped", "noised",
                          \* "done" (Fit returned)
  t_X,                    \* the arguments of Fit: the rows
  t_gradients,            \* and their gradients
  t_index,                \* self.tree_index
  use_bfs,                \* constructor arguments, after line 560
  max_depth,
  max_leaves,             \* 0 for None, which line 560 and 791 read alike
  cat_idx,                \* self.cat_idx: the indices of the categorical
                          \* features, {} for None
  heap,                   \* the DecisionNode objects, by identity
  root_node,              \* self.root_node: None or Some(identity)
  nodes,                  \* self.nodes: identities in the order of the appends
  nodes_bfs,              \* self.nodes_bfs: identities, first in first out
  current_number_of_leaves,
  max_leaves_reached,
  leaves,                 \* the local `leaves` of Fit, line 584
  t_clipped,              \* the heap as ClipLeaves left it (history)
  t_noise                 \* the draws of AddLaplacianNoise, one for each
                          \* element of leaves (history)

tVars == <<t_pc, t_X, t_gradients, t_index, use_bfs, max_depth, max_leaves,
           cat_idx,
           heap, root_node, nodes, nodes_bfs, current_number_of_leaves,
           max_leaves_reached, leaves, t_clipped, t_noise>>

VARIABLES
  c_pc,                   \* "idle", "for" (line 257), "while" (line 269),
                          \* "done" (Combine_3_trees returned)
  c_max_depth,            \* self.max_depth of the ensemble
  c_trees,                \* the argument trees: 3-node trees, each the
                          \* identity of its root node
  c_heap,                 \* the DecisionNode objects of the trees
  c_before,               \* c_heap at the call (history)
  c_self_trees,           \* self.trees
  c_index,                \* the loop variable of line 257
  c_copy,                 \* copy: places in c_trees of the pool's trees
  queue_children,         \* None or Some(node) for each queued child
  c_depth,
  c_noise,                \* the positions of the random stream each call of
                          \* AddLaplacianNoise by SplitNode drew from (history)
  c_grafts                \* for the two children of the last pair: the child,
                          \* the pool before and after, and what the selector
                          \* returned (history)

cVars == <<c_pc, c_max_depth, c_trees, c_heap, c_before, c_self_trees,
           c_index, c_copy, queue_children, c_depth, c_noise, c_grafts>>

vars == <<emVars, trVars, tVars, cVars>>

----------------------------------------------------------------------------
(* Bounds of the model *)

\* longest candidate list handed to the selector
MaxLen == 3
\* gains range over -GainLow .. GainHigh
GainLow == 1
GainHigh == 3
\* the uniform draw ranges over 0/DrawDen .. (DrawDen-1)/DrawDen
DrawDen == 4

\* nb_trees and nb_trees_per_ensemble range over 1 .. MaxTrees
MaxTrees == 3
\* rows of the training part of train_test_split
NRows == 2
\* rows of its test part
NTest == 1

\* Fit is handed 0 .. MaxRows rows
MaxRows == 4
\* whose feature ranges over 1 .. MaxValue
MaxValue == 3
\* max_depth ranges over 0 .. MaxDepth
MaxDepth == 2
\* max_leaves ranges over None and 1 .. MaxLeaves
MaxLeaves == 2

\* Combine_3_trees is handed 0 .. MaxCombine trees
MaxCombine == 3

\* np.exp(x) is representable for |x| <= ExpMax (float64: about 709 = 1023 ln 2)
ExpMax == 2

----------------------------------------------------------------------------
(* Optional values and rationals *)

None == <<>>
Some(x) == <<x>>
IsNone(o) == o = <<>>
Get(o) == o[1]

Abs(x) == IF x < 0 THEN -x ELSE x

RECURSIVE Pow(_, _)
Pow(b, e) == IF e = 0 THEN 1 ELSE b * Pow(b, e - 1)

RECURSIVE GCD(_, _)
GCD(a, b) == IF b = 0 THEN a ELSE GCD(b, a % b)

Norm(n, d) ==
  LET g == GCD(Abs(n), d) IN IF n = 0 THEN <<0, 1>> ELSE <<n \div g, d \div g>>

Rat(n) == <<n, 1>>
RAdd(a, b) == Norm(a[1] * b[2] + b[1] * a[2], a[2] * b[2])
RMul(a, b) == Norm(a[1] * b[1], a[2] * b[2])
RDiv(a, b) == IF b[1] < 0 THEN Norm(-(a[1] * b[2]), a[2] * (-b[1]))
                          ELSE Norm(a[1] * b[2], a[2] * b[1])
RNeg(a) == <<-a[1], a[2]>>
RAbs(a) == <<Abs(a[1]), a[2]>>
RLe(a, b) == a[1] * b[2] <= b[1] * a[2]
RLt(a, b) == a[1] * b[2] < b[1] * a[2]
REq(a, b) == a[1] * b[2] = b[1] * a[2]

RECURSIVE SumFrom(_, _)
SumFrom(s, i) == IF i > Len(s) THEN 0 ELSE s[i] + SumFrom(s, i + 1)

Sum(s) == SumFrom(s, 1)

RECURSIVE RSumFrom(_, _)
RSumFrom(s, i) == IF i > Len(s) THEN Rat(0) ELSE RAdd(s[i], RSumFrom(s, i + 1))

RSum(s) == RSumFrom(s, 1)

----------------------------------------------------------------------------
(* Floating point under np.errstate(all='raise'): None is FloatingPointError *)

FloatMax == Rat(Pow(2, ExpMax + 1))
FloatMin == <<1, Pow(2, ExpMax)>>

\* np.exp(x): overflow above the range, underflow below it
FExp(x) ==
  IF x > ExpMax \/ x < -ExpMax THEN None
  ELSE IF x >= 0 THEN Some(Rat(Pow(2, x))) ELSE Some(<<1, Pow(2, -x)>>)

\* a + b of two non-negative floats: overflow
FAdd(a, b) ==
  LET s == RAdd(a, b) IN IF RLe(FloatMax, s) THEN None ELSE Some(s)

\* a / b of two positive floats: underflow
FDiv(a, b) ==
  LET q == RDiv(a, b) IN IF RLt(q, FloatMin) THEN None ELSE Some(q)

----------------------------------------------------------------------------
(* ExponentialMechanism (model.py 978-1055)                                *)

Indices(gains) == 1 .. Len(gains)

\* the caller's max_gain: the largest gain of the list (-inf for an empty
\* list, where it is never read)
MaxGain(gains) ==
  IF gains = <<>> THEN 0
  ELSE CHOOSE m \in {gains[i] : i \in Indices(gains)} :
         \A i \in Indices(gains) : gains[i] <= m

\* line 995: np.sum(np.exp(prob['gain']) for prob in probabilities), the
\* generator summed left to right from 0; None when np.exp or the addition
\* raises
RECURSIVE SumExp(_, _, _)
SumExp(gains, i, acc) ==
  IF i > Len(gains) THEN Some(acc)
  ELSE LET e == FExp(gains[i]) IN
       IF IsNone(e) THEN None
       ELSE LET a == FAdd(acc, Get(e)) IN
            IF IsNone(a) THEN None ELSE SumExp(gains, i + 1, Get(a))

\* lines 997-1002: the probability of one candidate in the direct pass;
\* a zero gain is given probability 0 but stays in the sum
DirectProbability(gain, sum_probabilities) ==
  IF gain = 0 THEN Some(Rat(0))
  ELSE FDiv(Get(FExp(gain)), sum_probabilities)

\* lines 994-1002: the try block; None when FloatingPointError was raised
DirectPass(gains) ==
  LET sum_probabilities == SumExp(gains, 1, Rat(0)) IN
  IF IsNone(sum_probabilities) THEN None
  ELSE LET ps == [i \in Indices(gains) |->
                    DirectProbability(gains[i], Get(sum_probabilities))] IN
       IF \E i \in Indices(gains) : IsNone(ps[i]) THEN None
       ELSE Some([i \in Indices(gains) |-> Get(ps[i])])

\* lines 1020-1028: sum_prob over the candidates of non-zero gain, left to
\* right, stopped by the first FloatingPointError (the break)
RECURSIVE SumProbLoop(_, _, _, _)
SumProbLoop(gains, gain, j, sum_prob) ==
  IF j > Len(gains) THEN [sum_prob |-> sum_prob, broke |-> FALSE]
  ELSE IF gains[j] = 0 THEN SumProbLoop(gains, gain, j + 1, sum_prob)
  ELSE LET e == FExp(gains[j] - gain) IN
       IF IsNone(e) THEN [sum_prob |-> sum_prob, broke |-> TRUE]
       ELSE LET a == FAdd(sum_prob, Get(e)) IN
            IF IsNone(a) THEN [sum_prob |-> sum_prob, broke |-> TRUE]
            ELSE SumProbLoop(gains, gain, j + 1, Get(a))

\* lines 1006-1037: the probability of one candidate in the except branch.
\* The assignments happen in this order: 0 when exp(max_gain - gain) raises
\* (line 1014), 0 at the break (line 1027), then 1/sum_prob whenever
\* sum_prob != 0 (line 1033), also after a break
FallbackProbability(gains, max_gain, gain) ==
  IF gain = 0 THEN Rat(0)
  ELSE LET too_small == IF IsNone(FExp(max_gain - gain))
                        THEN Some(Rat(0)) ELSE None
           loop == SumProbLoop(gains, gain, 1, Rat(0))
           at_break == IF loop.broke THEN Some(Rat(0)) ELSE too_small
           final == IF loop.sum_prob # Rat(0)
                    THEN LET q == FDiv(Rat(1), loop.sum_prob) IN
                         IF IsNone(q) THEN Some(Rat(0)) ELSE q
                    ELSE at_break
       IN Get(final)

\* lines 993-1037: prob['probability'] of every candidate
Probabilities(gains, max_gain) ==
  LET direct == DirectPass(gains) IN
  IF IsNone(direct)
  THEN [i \in Indices(gains) |-> FallbackProbability(gains, max_gain, gains[i])]
  ELSE Get(direct)

\* the gate of line 1039 written with < instead of <=
AllGainsNegative(gains) == \A i \in Indices(gains) : gains[i] < 0

\* line 1039: no candidate offers a positive gain
AllGainsNonPositive(gains) == \A i \in Indices(gains) : gains[i] <= 0

\* lines 1048-1049: sorted(probabilities, key=probability, reverse=reverse).
\* Python's sort is stable, also with reverse=True: candidates of equal
\* probability keep their order in the list
SortsBefore(ps, reverse, i, j) ==
  IF REq(ps[i], ps[j]) THEN i < j
  ELSE IF reverse THEN RLt(ps[j], ps[i]) ELSE RLt(ps[i], ps[j])

Sorted(ps, reverse) ==
  LET n == Len(ps) IN
  [k \in 1 .. n |->
     CHOOSE i \in 1 .. n :
       Cardinality({j \in 1 .. n : j # i /\ SortsBefore(ps, reverse, j, i)})
         = k - 1]

\* line 1052-1053: op(prob['probability'], random_prob)
DrawOp(reverse, cumulative, random_prob) ==
  IF reverse THEN RLe(cumulative, random_prob)
             ELSE RLe(random_prob, cumulative)

\* lines 1044-1055: the cumulative pass over the sorted candidates
RECURSIVE CumulativePass(_, _, _, _, _, _)
CumulativePass(ps, order, reverse, random_prob, k, previous_prob) ==
  IF k > Len(order) THEN None
  ELSE LET cumulative == RAdd(ps[order[k]], previous_prob) IN
       IF DrawOp(reverse, cumulative, random_prob) THEN Some(order[k])
       ELSE CumulativePass(ps, order, reverse, random_prob, k + 1, cumulative)

\* the whole function: None, or Some(position of the returned candidate)
ExponentialMechanism(gains, max_gain, reverse, random_prob) ==
  LET ps == Probabilities(gains, max_gain) IN
  IF AllGainsNonPositive(gains) THEN None
  ELSE CumulativePass(ps, Sorted(ps, reverse), reverse, random_prob, 1, Rat(0))

----------------------------------------------------------------------------
(* The selector called on one candidate list with one uniform draw *)

RECURSIVE SeqsUpTo(_, _)
SeqsUpTo(S, n) ==
  IF n = 0 THEN {<<>>}
  ELSE LET shorter == SeqsUpTo(S, n - 1) IN
       shorter \cup {Append(s, x) : s \in shorter, x \in S}

Gains == (-GainLow) .. GainHigh
Draws == 0 .. (DrawDen - 1)
Draw(k) == <<k, DrawDen>>

IdleTrain ==
  /\ tr_pc = "idle"
  /\ nb_trees = 0
  /\ nb_trees_per_ensemble = 0
  /\ balance_partition = FALSE
  /\ tree_index = 0
  /\ trees = <<>>
  /\ X_ensemble = <<>>
  /\ y_ensemble = <<>>
  /\ gradients = None
  /\ update_gradients = FALSE
  /\ prev_rmse = None
  /\ tr_last = <<>>
  /\ tr_predict = <<>>
  /\ tr_rejected = {}
  /\ tr_fitted = <<>>

IdleTree ==
  /\ t_pc = "idle"
  /\ t_X = <<>>
  /\ t_gradients = <<>>
  /\ t_index = 0
  /\ use_bfs = FALSE
  /\ max_depth = 0
  /\ max_leaves = 0
  /\ cat_idx = {}
  /\ heap = <<>>
  /\ root_node = None
  /\ nodes = <<>>
  /\ nodes_bfs = <<>>
  /\ current_number_of_leaves = 0
  /\ max_leaves_reached = FALSE
  /\ leaves = <<>>
  /\ t_clipped = <<>>
  /\ t_noise = <<>>

IdleCombine ==
  /\ c_pc = "idle"
  /\ c_max_depth = 0
  /\ c_trees = <<>>
  /\ c_heap = <<>>
  /\ c_before = <<>>
  /\ c_self_trees = <<>>
  /\ c_index = 0
  /\ c_copy = <<>>
  /\ queue_children = <<>>
  /\ c_depth = 0
  /\ c_noise = <<>>
  /\ c_grafts = <<>>

InitEM ==
  /\ IdleTrain
  /\ IdleTree
  /\ IdleCombine
  /\ em_pc = "call"
  /\ em_gains \in SeqsUpTo(Gains, MaxLen)
  /\ em_reverse \in BOOLEAN
  /\ em_random_prob \in Draws
  /\ em_probability = <<>>
  /\ em_result = None

CallExponentialMechanism ==
  /\ em_pc = "call"
  /\ em_pc' = "done"
  /\ em_probability' = Probabilities(em_gains, MaxGain(em_gains))
  /\ em_result' = ExponentialMechanism(em_gains, MaxGain(em_gains), em_reverse,
                                       Draw(em_random_prob))
  /\ UNCHANGED <<em_gains, em_reverse, em_random_prob>>
  /\ UNCHANGED <<trVars, tVars, cVars>>

NextEM == CallExponentialMechanism

SpecEM == InitEM /\ [][NextEM]_vars

----------------------------------------------------------------------------
(* Claims about ExponentialMechanism *)

SomePositiveGain(gains) == \E i \in Indices(gains) : gains[i] > 0

\* the probabilities of the candidates of non-zero gain, before line 1043
NonZeroGainProbabilities ==
  LET nz == {i \in Indices(em_gains) : em_gains[i] # 0}
      Pick(k) == IF k \in nz THEN em_probability[k] ELSE Rat(0)
  IN [k \in Indices(em_gains) |-> Pick(k)]

\* C1: with at least one positive gain in the list, the candidate returned
\* has gain > 0, whatever the uniform draw.
C1_ReturnedGainPositive ==
  (em_pc = "done" /\ SomePositiveGain(em_gains) /\ ~IsNone(em_result))
    => em_gains[Get(em_result)] > 0

\* C2: when every gain is <= 0 (the empty list included) the selector
\* returns None for every draw, in normal and in reverse mode.
C2_NoPositiveGainReturnsNone ==
  (em_pc = "done" /\ \A i \in Indices(em_gains) : em_gains[i] <= 0)
    => IsNone(em_result)

C2_Witness ==
  /\ em_pc = "done"
  /\ Len(em_gains) >= 2
  /\ \A i \in Indices(em_gains) : em_gains[i] <= 0
  /\ \E i \in Indices(em_gains) : em_gains[i] = 0
  /\ \E i \in Indices(em_gains) : em_gains[i] < 0
  /\ em_random_prob = 0
  /\ IsNone(em_result)

\* C3: with at least one positive gain, the probabilities given to the
\* candidates of non-zero gain sum to 1, zero-gain candidates or not.
C3_ProbabilitiesSumToOne ==
  (em_pc = "done" /\ SomePositiveGain(em_gains))
    => REq(RSum(NonZeroGainProbabilities), Rat(1))

\* the draws for which the selector returns candidate i of the list
DrawsReturning(gains, reverse, i) ==
  {k \in Draws :
     ExponentialMechanism(gains, MaxGain(gains), reverse, Draw(k)) = Some(i)}

\* C10: in reverse mode a candidate of lower gain is returned for at least
\* as many draws as one of higher gain, and every candidate of positive
\* gain is returned for some draw.
C10_ReversePrefersLowerGain ==
  (em_pc = "done" /\ em_reverse /\ SomePositiveGain(em_gains)) =>
    /\ \A i, j \in Indices(em_gains) :
         em_gains[i] < em_gains[j] =>
           Cardinality(DrawsReturning(em_gains, TRUE, i))
             >= Cardinality(DrawsReturning(em_gains, TRUE, j))
    /\ \A i \in Indices(em_gains) :
         em_gains[i] > 0 => DrawsReturning(em_gains, TRUE, i) # {}

----------------------------------------------------------------------------
(* Decision nodes, trees and prediction *)

\* DecisionNode.__init__: every attribute is optional
DecisionNode(X, grads, index, value, depth, left_child, right_child, prediction) ==
  [X |-> X, gradients |-> grads, index |-> index, value |-> value,
   depth |-> depth, left_child |-> left_child, right_child |-> right_child,
   prediction |-> prediction]

\* the data set: row ids 1 .. NRows are the training part of
\* train_test_split, the next NTest ids its test part; one numeric feature
\* and integer labels, multiples of the number of rows so that their mean
\* is an integer and the training loop computes in integers
Feature(id) == id % 2
Label(id) == (NRows + NTest) * ((2 * id) % 3)
Row(id) == <<Feature(id)>>
X_train == [i \in 1 .. NRows |-> i]
X_test == [i \in 1 .. NTest |-> NRows + i]
LabelsOf(X) == [i \in 1 .. Len(X) |-> Label(X[i])]

\* constructor defaults and the loss parameters of lines 95-96
learning_rate == <<1, 10>>
l2_threshold == 1
l2_lambda == <<1, 10>>
min_samples_split == 2

\* line 119: np.full(len(y), sum(y)/len(y)) over all NRows + NTest labels
init_score ==
  LET y == LabelsOf(X_train \o X_test)
      mean == Sum(y) \div Len(y)
  IN [i \in 1 .. Len(y) |-> mean]

\* lines 872-873: value = row[node.index]; value >= node.value
GoesRight(node, row) == row[Get(node.index) + 1] >= Get(node.value)

\* DifferentiallyPrivateTree._Predict: walk from node id down to a leaf;
\* store holds the tree's nodes, index counts columns from 0
RECURSIVE PredictRow(_, _, _)
PredictRow(store, row, id) ==
  LET node == store[id] IN
  IF ~IsNone(node.prediction) THEN Get(node.prediction)
  ELSE IF GoesRight(node, row)
       THEN PredictRow(store, row, Get(node.right_child))
       ELSE PredictRow(store, row, Get(node.left_child))

\* DifferentiallyPrivateTree.Predict
TreePredict(tree, X) ==
  [i \in 1 .. Len(X) |-> PredictRow(tree.nodes, Row(X[i]), tree.root_node)]

Raise(e) == [error |-> e, value |-> <<>>]
Return(v) == [error |-> "", value |-> v]

\* the sum over the trees from position t on, for row i of X
RECURSIVE SumTreePredictions(_, _, _, _)
SumTreePredictions(trs, X, i, t) ==
  IF t > Len(trs) THEN 0
  ELSE PredictRow(trs[t].nodes, Row(X[i]), trs[t].root_node)
         + SumTreePredictions(trs, X, i, t + 1)

\* GradientBoostingEnsemble.Predict.  np.sum of a generator is Python's
\* sum(): for no tree it is the int 0, and len(0) at line 397 raises
\* TypeError; init_score[:n] is shorter than the predictions when X has
\* more rows than the training labels, and np.add raises ValueError
EnsemblePredict(trs, X) ==
  LET score == init_score IN
  IF trs = <<>> THEN Raise("TypeError")
  ELSE IF Len(X) > Len(score) THEN Raise("ValueError")
  ELSE Return([i \in 1 .. Len(X) |->
                 score[i] + SumTreePredictions(trs, X, i, 1)])

\* a call of Predict as the history records it
PredictCall(trs, X) ==
  [trees |-> trs, X |-> X, result |-> EnsemblePredict(trs, X)]

\* ComputeGradientForLossFunction: -(y - y_pred)
ComputeGradientForLossFunction(y, y_pred) ==
  [i \in 1 .. Len(y) |-> -(y[i] - y_pred[i])]

----------------------------------------------------------------------------
(* GradientBoostingEnsemble.Train, one action per iteration of line 131 *)

RECURSIVE RPow(_, _)
RPow(r, e) == IF e = 0 THEN Rat(1) ELSE RMul(r, RPow(r, e - 1))

\* int() of a non-negative float
Trunc(r) == r[1] \div r[2]
\* np.ceil(a / b) of non-negative ints
CeilDiv(a, b) == (a + b - 1) \div b

\* lines 140, 152-171: the number of rows for tree t
NumberOfRows(t) ==
  LET n == NRows
      T == nb_trees_per_ensemble
      one_minus_lr == RAdd(Rat(1), RNeg(learning_rate))
  IN IF balance_partition
     THEN IF nb_trees % T = 0
          THEN n \div T
          ELSE IF CeilDiv(t, T) = CeilDiv(nb_trees, T)
               THEN n \div (nb_trees % T)
               ELSE (n \div T) + (n \div (nb_trees % T))
     ELSE Trunc(RDiv(RMul(RMul(Rat(n), learning_rate), RPow(one_minus_lr, t % T)),
                   RAdd(Rat(1), RNeg(RPow(one_minus_lr, T)))))

\* lines 132-149: the gradients and the working set the iteration starts
\* from; error is set when a call of Predict raises
LoopHead ==
  LET first_call == tree_index > 0 /\ update_gradients
      first == IF tree_index = 0 THEN Return(Some(init_score))
               ELSE IF update_gradients
               THEN LET p == EnsemblePredict(trees, X_ensemble) IN
                    IF p.error # "" THEN p
                    ELSE Return(Some(ComputeGradientForLossFunction(
                                       y_ensemble, p.value)))
               ELSE Return(gradients)
      start == tree_index % nb_trees_per_ensemble = 0
      second_call == start /\ tree_index > 0 /\ first.error = ""
      second == IF second_call
                THEN LET p == EnsemblePredict(trees, X_train) IN
                     IF p.error # "" THEN p
                     ELSE Return(Some(ComputeGradientForLossFunction(
                                        LabelsOf(X_train), p.value)))
                ELSE first
  IN [error |-> second.error,
      predict |-> IF second_call THEN <<PredictCall(trees, X_train)>>
                  ELSE IF first_call THEN <<PredictCall(trees, X_ensemble)>>
                  ELSE <<>>,
      gradients |-> second.value,
      X_ensemble |-> IF start THEN X_train ELSE X_ensemble,
      y_ensemble |-> IF start THEN LabelsOf(X_train) ELSE y_ensemble,
      prev_rmse |-> IF start THEN None ELSE prev_rmse,
      update_gradients |-> IF start THEN TRUE ELSE update_gradients]

\* X[rows]: the elements of X at the positions rows
Take(X, rows) == [i \in 1 .. Len(rows) |-> X[rows[i]]]

\* X[mask]: the elements of X where the boolean mask holds
RECURSIVE MaskFrom(_, _, _)
MaskFrom(X, mask, i) ==
  IF i > Len(X) THEN <<>>
  ELSE IF mask[i] THEN <<X[i]>> \o MaskFrom(X, mask, i + 1)
  ELSE MaskFrom(X, mask, i + 1)

Mask(X, mask) == MaskFrom(X, mask, 1)

\* X with every element kept, whatever the positions
Retain(X, positions) == X

\* np.delete(X, positions): X without the elements at the positions
RECURSIVE DeleteFrom(_, _, _)
DeleteFrom(X, positions, i) ==
  IF i > Len(X) THEN <<>>
  ELSE (IF \E k \in 1 .. Len(positions) : positions[k] = i
        THEN <<>> ELSE <<X[i]>>) \o DeleteFrom(X, positions, i + 1)

Delete(X, positions) == DeleteFrom(X, positions, 1)

\* lines 192-193: the mask of gradient based data filtering
RowsGbf(gradients_tree) ==
  [i \in 1 .. Len(gradients_tree) |-> Abs(gradients_tree[i]) <= l2_threshold]

\* every sampled position, filtered or not
AllRows(t, rows, rows_gbf) == rows

\* line 198: the positions handed to np.delete when the tree is kept
SelectedRows(t, rows, rows_gbf) == IF t > 0 THEN Mask(rows, rows_gbf) ELSE rows

\* line 230: np.sqrt(np.mean(np.square(y_test - p))), p being
\* self.Predict(X_test), as the sum of the squares: the mean over the
\* NTest rows and the square root keep the order, which is all line 231 reads
SquaredError(p) ==
  LET y == LabelsOf(X_test) IN
  Sum([i \in 1 .. Len(y) |-> (y[i] - p[i]) * (y[i] - p[i])])

\* line 231: rmse >= prev_rmse, prev_rmse being np.inf at a cycle's start
NotBetter(rmse, prev) == ~IsNone(prev) /\ rmse >= Get(prev)

\* GetLeafPrediction: -sum(gradients) / (len(gradients) + l2_lambda)
GetLeafPrediction(grads) ==
  RDiv(Rat(-Sum(grads)), RAdd(Rat(Len(grads)), l2_lambda))

\* the values a post-processed leaf may end with: learning_rate * (clipped
\* prediction + Laplace noise), the noise being any real
LeafValues == {-1, 1}

\* Fit, line 584: a leaf whose prediction is 0 is not post-processed and
\* keeps it; any other leaf ends with a noised value
LeafOutcomes(grads) ==
  IF REq(GetLeafPrediction(grads), Rat(0)) THEN {0} ELSE LeafValues

LeafNode(prediction) ==
  DecisionNode(None, None, None, None, None, None, None, Some(prediction))

\* the trees Fit may build depth-first with max_depth = 1 (lines 597-653):
\* a single leaf, or a root split at a value of the feature with two
\* leaves; self.nodes holds them in the order of the appends
FitOutcomes(t, X_tree, gradients_tree) ==
  LET leaf == {[tree_index |-> t, root_node |-> 1, nodes |-> <<LeafNode(p)>>] :
                 p \in LeafOutcomes(gradients_tree)}
      lhs(v) == [i \in 1 .. Len(X_tree) |-> Feature(X_tree[i]) < v]
      rhs(v) == [i \in 1 .. Len(X_tree) |-> Feature(X_tree[i]) >= v]
      split(v) ==
        {[tree_index |-> t, root_node |-> 3,
          nodes |-> <<LeafNode(pl), LeafNode(pr),
                      DecisionNode(None, None, Some(0), Some(v), None,
                                   Some(1), Some(2), None)>>] :
           pl \in LeafOutcomes(Mask(gradients_tree, lhs(v))),
           pr \in LeafOutcomes(Mask(gradients_tree, rhs(v)))}
  IN IF Len(X_tree) < min_samples_split THEN leaf
     ELSE leaf \cup UNION {split(Feature(X_tree[i])) : i \in 1 .. Len(X_tree)}

\* lines 184-225: the sample, the filter and the fitted tree of an iteration
\* that starts from head and draws the positions rows
Iteration(head, rows) ==
  LET gradients_tree == Take(Get(head.gradients), rows)
      X_sampled == Take(head.X_ensemble, rows)
      rows_gbf == RowsGbf(gradients_tree)
      X_tree == IF tree_index > 0 THEN Mask(X_sampled, rows_gbf) ELSE X_sampled
      g_tree == IF tree_index > 0 THEN Mask(gradients_tree, rows_gbf)
                ELSE gradients_tree
  IN [rows_gbf |-> rows_gbf,
      X_tree |-> X_tree,
      selected_rows |-> SelectedRows(tree_index, rows, rows_gbf),
      fits |-> FitOutcomes(tree_index, X_tree, g_tree)]

\* line 185: np.random.randint(len(X_ensemble), size=number_of_rows), the
\* positions drawn with replacement; listed in ascending order, the order
\* of a sample changing only the order of the rows of X_tree
Samples(head) ==
  {rows \in [1 .. NumberOfRows(tree_index) -> 1 .. Len(head.X_ensemble)] :
     \A i \in 1 .. (Len(rows) - 1) : rows[i] <= rows[i + 1]}

\* lines 141-146: a cycle starts with the whole training set again, so the
\* record of the trees kept in the cycle starts empty
CycleFitted ==
  IF tree_index % nb_trees_per_ensemble = 0 THEN <<>> ELSE tr_fitted

Last(outcome, rows, selected_rows) ==
  <<[outcome |-> outcome, tree_index |-> tree_index, rows |-> rows,
     selected_rows |-> selected_rows]>>

IdleEMVars ==
  /\ em_pc = "idle"
  /\ em_gains = <<>>
  /\ em_reverse = FALSE
  /\ em_random_prob = 0
  /\ em_probability = <<>>
  /\ em_result = None

InitTrain ==
  /\ IdleEMVars
  /\ IdleTree
  /\ IdleCombine
  /\ tr_pc = "loop"
  /\ nb_trees \in 1 .. MaxTrees
  /\ nb_trees_per_ensemble \in 1 .. MaxTrees
  /\ balance_partition \in BOOLEAN
  /\ tree_index = 0
  /\ trees = <<>>
  /\ X_ensemble = <<>>
  /\ y_ensemble = <<>>
  /\ gradients = None
  /\ update_gradients = TRUE
  /\ prev_rmse = None
  /\ tr_last = <<>>
  /\ tr_predict = <<>>
  /\ tr_rejected = {}
  /\ tr_fitted = <<>>

TrainConfig == <<nb_trees, nb_trees_per_ensemble, balance_partition>>

\* a call of Predict at line 139 or 149 raises
TrainRaiseInPredict ==
  /\ tr_pc = "loop" /\ tree_index < nb_trees
  /\ LET head == LoopHead IN
     /\ head.error # ""
     /\ tr_predict' = head.predict
     /\ tr_last' = Last(head.error, <<>>, <<>>)
  /\ tr_pc' = "raised"
  /\ UNCHANGED <<TrainConfig, tree_index, trees, X_ensemble, y_ensemble,
                 gradients, update_gradients, prev_rmse, tr_rejected,
                 tr_fitted>>
  /\ UNCHANGED <<emVars, tVars, cVars>>

\* lines 177-182: no row for this tree, continue
TrainSkipTree ==
  /\ tr_pc = "loop" /\ tree_index < nb_trees
  /\ NumberOfRows(tree_index) = 0
  /\ LET head == LoopHead IN
     /\ head.error = ""
     /\ gradients' = head.gradients
     /\ X_ensemble' = head.X_ensemble
     /\ y_ensemble' = head.y_ensemble
     /\ prev_rmse' = head.prev_rmse
     /\ update_gradients' = head.update_gradients
     /\ tr_predict' = head.predict
  /\ tree_index' = tree_index + 1
  /\ tr_last' = Last("skipped", <<>>, <<>>)
  /\ tr_fitted' = CycleFitted
  /\ UNCHANGED <<TrainConfig, tr_pc, trees, tr_rejected>>
  /\ UNCHANGED <<emVars, tVars, cVars>>

\* line 185: np.random.randint(0, size=n) raises ValueError
TrainRaiseInSampling ==
  /\ tr_pc = "loop" /\ tree_index < nb_trees
  /\ NumberOfRows(tree_index) > 0
  /\ LET head == LoopHead IN
     /\ head.error = ""
     /\ Len(head.X_ensemble) = 0
     /\ tr_predict' = head.predict
  /\ tr_pc' = "raised"
  /\ tr_last' = Last("ValueError", <<>>, <<>>)
  /\ UNCHANGED <<TrainConfig, tree_index, trees, X_ensemble, y_ensemble,
                 gradients, update_gradients, prev_rmse, tr_rejected,
                 tr_fitted>>
  /\ UNCHANGED <<emVars, tVars, cVars>>

\* the tree list left as it is
KeepTree(trs) == trs

\* line 235: the tree appended at line 228 is removed again
PopTree(trs) == SubSeq(trs, 1, Len(trs) - 1)

\* lines 184-243: a tree is fitted on a sample of the working set, and is
\* removed again (lines 231-235) or kept (lines 236-243)
TrainFitTree ==
  /\ tr_pc = "loop" /\ tree_index < nb_trees
  /\ LET head == LoopHead IN
     /\ head.error = ""
     /\ NumberOfRows(tree_index) > 0
     /\ Len(head.X_ensemble) > 0
     /\ \E rows \in Samples(head) :
          LET it == Iteration(head, rows) IN
          \E tree \in it.fits :
            LET appended == Append(trees, tree)
                predicted == EnsemblePredict(appended, X_test)
                rmse == SquaredError(predicted.value)
            IN /\ IF NotBetter(rmse, head.prev_rmse)
                  THEN /\ update_gradients' = FALSE
                       /\ trees' = PopTree(appended)
                       /\ prev_rmse' = head.prev_rmse
                       /\ X_ensemble' = head.X_ensemble
                       /\ y_ensemble' = head.y_ensemble
                       /\ tr_last' = Last("rejected", rows, it.selected_rows)
                       /\ tr_rejected' = tr_rejected \cup {tree_index}
                       /\ tr_fitted' = CycleFitted
                  ELSE /\ update_gradients' = TRUE
                       /\ trees' = appended
                       /\ prev_rmse' = Some(rmse)
                       /\ X_ensemble' = Delete(head.X_ensemble, it.selected_rows)
                       /\ y_ensemble' = Delete(head.y_ensemble, it.selected_rows)
                       /\ tr_last' = Last("accepted", rows, it.selected_rows)
                       /\ tr_rejected' = tr_rejected
                       /\ tr_fitted' =
                            Append(CycleFitted,
                                   [tree_index |-> tree_index,
                                    X_tree |-> it.X_tree])
               /\ tr_predict' = <<[trees |-> appended, X |-> X_test,
                                    result |-> predicted]>>
     /\ gradients' = head.gradients
  /\ tree_index' = tree_index + 1
  /\ UNCHANGED <<TrainConfig, tr_pc>>
  /\ UNCHANGED <<emVars, tVars, cVars>>

\* line 246: the loop is over (use_3_trees is False)
TrainReturn ==
  /\ tr_pc = "loop" /\ tree_index = nb_trees
  /\ tr_pc' = "done"
  /\ UNCHANGED <<TrainConfig, tree_index, trees, X_ensemble, y_ensemble,
                 gradients, update_gradients, prev_rmse, tr_last, tr_predict,
                 tr_rejected, tr_fitted>>
  /\ UNCHANGED <<emVars, tVars, cVars>>

NextTrain ==
  \/ TrainRaiseInPredict
  \/ TrainSkipTree
  \/ TrainRaiseInSampling
  \/ TrainFitTree
  \/ TrainReturn

SpecTrain == InitTrain /\ [][NextTrain]_vars

----------------------------------------------------------------------------
(* DifferentiallyPrivateTree: split finding *)

\* `if node.prediction`: neither None nor 0.0
Truthy(prediction) == ~IsNone(prediction) /\ ~REq(Get(prediction), Rat(0))

\* GetOperators (lines 917-921, and 422-426 for the ensemble) applied as at
\* lines 898-899: the rows of X on either side of value in column index,
\* by == and != for a categorical feature and by < and >= for a numerical
LhsMask(X, index, value) ==
  [i \in 1 .. Len(X) |->
     IF index \in cat_idx THEN X[i][index + 1] = value
     ELSE X[i][index + 1] < value]
RhsMask(X, index, value) ==
  [i \in 1 .. Len(X) |->
     IF index \in cat_idx THEN X[i][index + 1] # value
     ELSE X[i][index + 1] >= value]

\* ComputeGain, lines 897-906
ComputeGain(index, value, X, grads) ==
  LET lhs_grad == Mask(grads, LhsMask(X, index, value))
      rhs_grad == Mask(grads, RhsMask(X, index, value))
      lhs_gain == RDiv(Rat(Sum(lhs_grad) * Sum(lhs_grad)),
                       RAdd(Rat(Len(lhs_grad)), l2_lambda))
      rhs_gain == RDiv(Rat(Sum(rhs_grad) * Sum(rhs_grad)),
                       RAdd(Rat(Len(rhs_grad)), l2_lambda))
  IN RAdd(lhs_gain, rhs_gain)

\* np.unique: the elements of a set of numbers in ascending order
RECURSIVE Ascending(_)
Ascending(S) ==
  IF S = {} THEN <<>>
  ELSE LET least == CHOOSE x \in S : \A y \in S : x <= y
       IN <<least>> \o Ascending(S \ {least})

\* lines 816-830: the candidates of column feature_index and after, in the
\* order of the two loops; gain is exp_gain over the positive factor
\* privacy_budget_for_node / (2 * delta_g)
RECURSIVE SplitCandidates(_, _, _, _)
SplitCandidates(X, grads, width, feature_index) ==
  IF feature_index >= width THEN <<>>
  ELSE LET values == Ascending({X[i][feature_index + 1] : i \in 1 .. Len(X)})
       IN [k \in 1 .. Len(values) |->
             [index |-> feature_index, value |-> values[k],
              gain |-> ComputeGain(feature_index, values[k], X, grads)]]
          \o SplitCandidates(X, grads, width, feature_index + 1)

\* what ExponentialMechanism(probabilities, max_gain) returns over the
\* draws of line 1045 when no gain is negative and np.exp does not overflow
\* (lines 994-1002, 1039-1055): None when no gain is positive; otherwise
\* any candidate of positive gain, and, when some gain is 0.0, also the
\* first candidate of probability 0 (draw 0.0) and None (draw above the sum
\* of the probabilities)
SplitOutcomes(candidates) ==
  LET positive == {k \in 1 .. Len(candidates) :
                     RLt(Rat(0), candidates[k].gain)}
      zero == (1 .. Len(candidates)) \ positive
  IN IF positive = {} THEN {None}
     ELSE {Some(candidates[k]) : k \in positive}
          \cup (IF zero = {} THEN {}
                ELSE {None,
                      Some(candidates[CHOOSE k \in zero :
                                        \A j \in zero : k <= j])})

\* FindBestSplit on rows of width columns: the splits it may return
FindBestSplit(X, grads, width) ==
  SplitOutcomes(SplitCandidates(X, grads, width, 0))

\* MakeTreeDFS (lines 613-653): the lists of nodes it may append to
\* self.nodes, the returned node last; a node's identity is offset plus its
\* place in the list. With use_3_trees the nodes keep X and gradients
RECURSIVE MakeTreeDFS(_, _, _, _, _, _)
MakeTreeDFS(X, grads, depth, width, use_3_trees, offset) ==
  LET kept_X == IF use_3_trees THEN Some(X) ELSE None
      kept_gradients == IF use_3_trees THEN Some(grads) ELSE None
      leaf == <<DecisionNode(kept_X, kept_gradients, None, None, None, None,
                             None, Some(GetLeafPrediction(grads)))>>
      grown(best) ==
        LET lhs == LhsMask(X, best.index, best.value)
            rhs == RhsMask(X, best.index, best.value)
        IN UNION {
             {L \o R \o <<DecisionNode(kept_X, kept_gradients,
                                       Some(best.index), Some(best.value),
                                       None, Some(offset + Len(L)),
                                       Some(offset + Len(L) + Len(R)),
                                       None)>> :
                R \in MakeTreeDFS(Mask(X, rhs), Mask(grads, rhs), depth - 1,
                                  width, use_3_trees, offset + Len(L))} :
             L \in MakeTreeDFS(Mask(X, lhs), Mask(grads, lhs), depth - 1,
                               width, use_3_trees, offset)}
  IN IF depth = 0 \/ Len(X) < min_samples_split THEN {leaf}
     ELSE UNION {IF IsNone(best) THEN {leaf} ELSE grown(Get(best)) :
                   best \in FindBestSplit(X, grads, width)}

----------------------------------------------------------------------------
(* DifferentiallyPrivateTree.Fit: best-leaf-first growth, post-processing *)

\* X.shape[1]: the rows handed to Fit have one column
TreeWidth == 1

\* the rows handed to Fit: any number up to MaxRows, features ascending
TreeData ==
  {X \in UNION {[1 .. n -> {<<v>> : v \in 1 .. MaxValue}] : n \in 0 .. MaxRows} :
     \A i \in 1 .. (Len(X) - 1) : X[i][1] <= X[i + 1][1]}

GradientValues == {-1, 1}

\* lines 590-591 and 375: the scale AddLaplacianNoise is called with
laplace_scale == Rat(1)

TreeArguments ==
  <<t_X, t_gradients, t_index, use_bfs, max_depth, max_leaves, cat_idx>>

InitTree ==
  /\ IdleEMVars
  /\ IdleTrain
  /\ IdleCombine
  /\ t_pc = "fit"
  /\ t_X \in TreeData
  /\ t_gradients \in [1 .. Len(t_X) -> GradientValues]
  /\ t_index \in {0, 1}
  /\ max_depth \in 0 .. MaxDepth
  /\ max_leaves \in 0 .. MaxLeaves
  /\ use_bfs \in BOOLEAN
  /\ max_leaves # 0 => use_bfs
  /\ cat_idx \in {{}, {0}}
  /\ heap = <<>>
  /\ root_node = None
  /\ nodes = <<>>
  /\ nodes_bfs = <<>>
  /\ current_number_of_leaves = 0
  /\ max_leaves_reached = FALSE
  /\ leaves = <<>>
  /\ t_clipped = <<>>
  /\ t_noise = <<>>

\* Fit, lines 581-582, without use_3_trees: MakeTreeDFS to max_depth
FitDFS ==
  /\ t_pc = "fit" /\ ~use_bfs
  /\ \E built \in MakeTreeDFS(t_X, t_gradients, max_depth, TreeWidth, FALSE, 0) :
       /\ heap' = built
       /\ nodes' = [i \in 1 .. Len(built) |-> i]
       /\ root_node' = Some(Len(built))
  /\ t_pc' = "built"
  /\ UNCHANGED <<TreeArguments, nodes_bfs, current_number_of_leaves,
                 max_leaves_reached, leaves, t_clipped, t_noise>>
  /\ UNCHANGED <<emVars, trVars, cVars>>

\* MakeTreeBFS, lines 668-682: the root is a leaf, or is registered in
\* self.nodes and queued
MakeTreeBFS ==
  /\ t_pc = "fit" /\ use_bfs
  /\ \E best_split \in FindBestSplit(t_X, t_gradients, TreeWidth) :
       IF IsNone(best_split)
       THEN /\ heap' = <<DecisionNode(None, None, None, None, None, None, None,
                                      Some(GetLeafPrediction(t_gradients)))>>
            /\ nodes' = <<1>>
            /\ nodes_bfs' = <<>>
            /\ root_node' = Some(1)
            /\ t_pc' = "built"
       ELSE /\ heap' = <<DecisionNode(Some(t_X), Some(t_gradients),
                                      Some(Get(best_split).index),
                                      Some(Get(best_split).value), Some(0),
                                      None, None, None)>>
            /\ nodes' = <<1>>
            /\ nodes_bfs' = <<1>>
            /\ root_node' = None
            /\ t_pc' = "expand"
  /\ UNCHANGED <<TreeArguments, current_number_of_leaves, max_leaves_reached,
                 leaves, t_clipped, t_noise>>
  /\ UNCHANGED <<emVars, trVars, cVars>>

\* _MakeLeaf, lines 776-778, on the heap
MakeLeaf(h, id) ==
  [h EXCEPT ![id].prediction = Some(GetLeafPrediction(Get(h[id].gradients)))]

\* _IsMaxLeafReached, lines 787-794: the flag after the call, for the
\* queue, heap, leaf count and flag before it
IsMaxLeafReached(queue, h, number_of_leaves, reached) ==
  LET leaf_candidates ==
        Cardinality({k \in 1 .. Len(queue) :
                       /\ IsNone(h[queue[k]].left_child)
                       /\ IsNone(h[queue[k]].right_child)})
  IN IF max_leaves # 0 /\ number_of_leaves + leaf_candidates >= max_leaves
     THEN TRUE ELSE reached

\* _ExpandTreeBFS, lines 698-699: nothing queued, or too many leaves
ExpandStop ==
  /\ t_pc = "expand"
  /\ nodes_bfs = <<>> \/ max_leaves_reached
  /\ t_pc' = "assign"
  /\ UNCHANGED <<TreeArguments, heap, root_node, nodes, nodes_bfs,
                 current_number_of_leaves, max_leaves_reached, leaves,
                 t_clipped, t_noise>>
  /\ UNCHANGED <<emVars, trVars, cVars>>

\* the node line 701 takes from the queue
current_node == Head(nodes_bfs)

\* _MakeLeaf(current_node) followed by `if not self._IsMaxLeafReached()`,
\* as at lines 707-710 and 739-742: the call recurses or returns
MakeLeafAndCheck ==
  LET reached == IsMaxLeafReached(Tail(nodes_bfs), MakeLeaf(heap, current_node),
                                  current_number_of_leaves + 1,
                                  max_leaves_reached)
  IN /\ heap' = MakeLeaf(heap, current_node)
     /\ current_number_of_leaves' = current_number_of_leaves + 1
     /\ nodes' = Append(nodes, current_node)
     /\ nodes_bfs' = Tail(nodes_bfs)
     /\ max_leaves_reached' = reached
     /\ t_pc' = IF reached THEN "assign" ELSE "expand"

\* lines 706-710: not enough samples to split the node
ExpandSmallNode ==
  /\ t_pc = "expand"
  /\ nodes_bfs # <<>> /\ ~max_leaves_reached
  /\ Len(Get(heap[current_node].gradients)) < min_samples_split
  /\ MakeLeafAndCheck
  /\ UNCHANGED <<TreeArguments, root_node, leaves, t_clipped, t_noise>>
  /\ UNCHANGED <<emVars, trVars, cVars>>

\* the rest of the queue made leaves, lines 718-720
RECURSIVE DrainQueue(_, _)
DrainQueue(h, queue) ==
  IF queue = <<>> THEN h ELSE DrainQueue(MakeLeaf(h, Head(queue)), Tail(queue))

\* lines 713-721: the node is at max_depth
ExpandMaxDepth ==
  /\ t_pc = "expand"
  /\ nodes_bfs # <<>> /\ ~max_leaves_reached
  /\ Len(Get(heap[current_node].gradients)) >= min_samples_split
  /\ Get(heap[current_node].depth) = max_depth
  /\ LET made == MakeLeaf(heap, current_node)
         rest == Tail(nodes_bfs)
         reached == IsMaxLeafReached(rest, made, current_number_of_leaves + 1,
                                     max_leaves_reached)
     IN IF reached \/ max_leaves # 0
        THEN /\ heap' = made
             /\ current_number_of_leaves' = current_number_of_leaves + 1
             /\ nodes' = Append(nodes, current_node)
             /\ nodes_bfs' = rest
             /\ max_leaves_reached' = reached
             /\ t_pc' = IF reached THEN "assign" ELSE "expand"
        ELSE /\ heap' = DrainQueue(made, rest)
             /\ current_number_of_leaves' =
                  current_number_of_leaves + 1 + Len(rest)
             /\ nodes' = Append(nodes, current_node) \o rest
             /\ nodes_bfs' = <<>>
             /\ max_leaves_reached' = reached
             /\ t_pc' = "assign"
  /\ UNCHANGED <<TreeArguments, root_node, leaves, t_clipped, t_noise>>
  /\ UNCHANGED <<emVars, trVars, cVars>>

\* lines 726-735: the two sides of current_node's split and the best split
\* FindBestSplit may return for each
SplitSides ==
  LET node == heap[current_node]
      X == Get(node.X)
      grads == Get(node.gradients)
      lhs == LhsMask(X, Get(node.index), Get(node.value))
      rhs == RhsMask(X, Get(node.index), Get(node.value))
  IN [lhs_X |-> Mask(X, lhs), lhs_grad |-> Mask(grads, lhs),
      rhs_X |-> Mask(X, rhs), rhs_grad |-> Mask(grads, rhs),
      depth |-> Get(node.depth)]

CanSplit ==
  /\ t_pc = "expand"
  /\ nodes_bfs # <<>> /\ ~max_leaves_reached
  /\ Len(Get(heap[current_node].gradients)) >= min_samples_split
  /\ Get(heap[current_node].depth) # max_depth

\* lines 738-742: a side has no best split, the node becomes a leaf
ExpandNoSplit ==
  /\ CanSplit
  /\ LET sides == SplitSides IN
     \E lhs_best_split \in FindBestSplit(sides.lhs_X, sides.lhs_grad, TreeWidth),
        rhs_best_split \in FindBestSplit(sides.rhs_X, sides.rhs_grad, TreeWidth) :
       IsNone(lhs_best_split) \/ IsNone(rhs_best_split)
  /\ MakeLeafAndCheck
  /\ UNCHANGED <<TreeArguments, root_node, leaves, t_clipped, t_noise>>
  /\ UNCHANGED <<emVars, trVars, cVars>>

\* lines 745-768: the node gets two children, which are queued in the order
\* of their gains, and is registered in self.nodes
ExpandSplit ==
  /\ CanSplit
  /\ LET sides == SplitSides IN
     \E lhs_best_split \in FindBestSplit(sides.lhs_X, sides.lhs_grad, TreeWidth),
        rhs_best_split \in FindBestSplit(sides.rhs_X, sides.rhs_grad, TreeWidth) :
       /\ ~IsNone(lhs_best_split) /\ ~IsNone(rhs_best_split)
       /\ LET lhs_best == Get(lhs_best_split)
              rhs_best == Get(rhs_best_split)
              left_child == Len(heap) + 1
              right_child == Len(heap) + 2
              split == [heap EXCEPT ![current_node].left_child = Some(left_child),
                                    ![current_node].right_child = Some(right_child)]
          IN /\ heap' = split \o
                  <<DecisionNode(Some(sides.lhs_X), Some(sides.lhs_grad),
                                 Some(lhs_best.index), Some(lhs_best.value),
                                 Some(sides.depth + 1), None, None, None),
                    DecisionNode(Some(sides.rhs_X), Some(sides.rhs_grad),
                                 Some(rhs_best.index), Some(rhs_best.value),
                                 Some(sides.depth + 1), None, None, None)>>
             /\ nodes_bfs' = Tail(nodes_bfs) \o
                  (IF RLe(rhs_best.gain, lhs_best.gain)
                   THEN <<left_child, right_child>>
                   ELSE <<right_child, left_child>>)
  /\ nodes' = Append(nodes, current_node)
  /\ UNCHANGED <<TreeArguments, root_node, current_number_of_leaves,
                 max_leaves_reached, t_pc, leaves, t_clipped, t_noise>>
  /\ UNCHANGED <<emVars, trVars, cVars>>

\* lines 683-688 and 579: the childless nodes of self.nodes without a
\* prediction get one; `node` is the loop variable of line 683 when line 688
\* returns it, so MakeTreeBFS returns the last element of self.nodes
AssignRemaining ==
  /\ t_pc = "assign"
  /\ heap' = [id \in 1 .. Len(heap) |->
                IF /\ \E k \in 1 .. Len(nodes) : nodes[k] = id
                   /\ ~Truthy(heap[id].prediction)
                   /\ IsNone(heap[id].left_child)
                   /\ IsNone(heap[id].right_child)
                THEN MakeLeaf(heap, id)[id] ELSE heap[id]]
  /\ root_node' = Some(nodes[Len(nodes)])
  /\ t_pc' = "built"
  /\ UNCHANGED <<TreeArguments, nodes, nodes_bfs, current_number_of_leaves,
                 max_leaves_reached, leaves, t_clipped, t_noise>>
  /\ UNCHANGED <<emVars, trVars, cVars>>

\* line 939: the clipping threshold of tree t
ClipThreshold(t) ==
  RMul(Rat(l2_threshold), RPow(RAdd(Rat(1), RNeg(learning_rate)), t))

\* ClipLeaves, lines 940-946, on the elements k and after of the list ls
RECURSIVE ClipLeaves(_, _, _, _)
ClipLeaves(h, ls, threshold, k) ==
  IF k > Len(ls) THEN h
  ELSE LET prediction == Get(h[ls[k]].prediction)
           clipped == IF RLt(threshold, RAbs(prediction))
                      THEN IF RLt(Rat(0), prediction) THEN threshold
                           ELSE RNeg(threshold)
                      ELSE prediction
       IN ClipLeaves([h EXCEPT ![ls[k]].prediction = Some(clipped)], ls,
                     threshold, k + 1)

\* line 961 after np.random.seed(0) at line 959: the generator restarts
\* at every call of AddLaplacianNoise, so the draws of a call are the start
\* of one fixed stream; for scale 1, to one decimal
LaplaceStream ==
  <<<<1, 10>>, <<3, 5>>, <<1, 5>>, <<1, 10>>, <<-1, 5>>, <<3, 10>>,
    <<-1, 10>>, <<3, 2>>, <<5, 2>>, <<-3, 10>>>>

\* the positions of the stream a call on n leaves draws from: line 959
\* puts the generator back at the start of the stream
LaplacePositions(n) == [k \in 1 .. n |-> k]

\* the draws of a call on n leaves
LaplaceDraws(n, scale) ==
  [k \in 1 .. n |-> RMul(scale, LaplaceStream[LaplacePositions(n)[k]])]

\* AddLaplacianNoise, lines 960-962, with the draws of np.random.laplace
RECURSIVE AddLaplacianNoise(_, _, _, _)
AddLaplacianNoise(h, ls, draws, k) ==
  IF k > Len(ls) THEN h
  ELSE AddLaplacianNoise(
         [h EXCEPT ![ls[k]].prediction = Some(RAdd(Get(@), draws[k]))],
         ls, draws, k + 1)

\* Shrink, lines 973-975
RECURSIVE Shrink(_, _, _)
Shrink(h, ls, k) ==
  IF k > Len(ls) THEN h
  ELSE Shrink([h EXCEPT ![ls[k]].prediction = Some(RMul(Get(@), learning_rate))],
              ls, k + 1)

\* Fit, lines 584-587: the leaves are collected from self.nodes and clipped
FitClip ==
  /\ t_pc = "built"
  /\ LET collected == Mask(nodes, [k \in 1 .. Len(nodes) |->
                                     Truthy(heap[nodes[k]].prediction)])
         clipped == ClipLeaves(heap, collected, ClipThreshold(t_index), 1)
     IN /\ leaves' = collected
        /\ heap' = clipped
        /\ t_clipped' = clipped
  /\ t_pc' = "clipped"
  /\ UNCHANGED <<TreeArguments, root_node, nodes, nodes_bfs,
                 current_number_of_leaves, max_leaves_reached, t_noise>>
  /\ UNCHANGED <<emVars, trVars, cVars>>

\* Fit, lines 590-592
FitNoise ==
  /\ t_pc = "clipped"
  /\ LET draws == LaplaceDraws(Len(leaves), laplace_scale) IN
     /\ heap' = AddLaplacianNoise(heap, leaves, draws, 1)
     /\ t_noise' = draws
  /\ t_pc' = "noised"
  /\ UNCHANGED <<TreeArguments, root_node, nodes, nodes_bfs,
                 current_number_of_leaves, max_leaves_reached, leaves,
                 t_clipped>>
  /\ UNCHANGED <<emVars, trVars, cVars>>

\* Fit, line 595
FitShrink ==
  /\ t_pc = "noised"
  /\ heap' = Shrink(heap, leaves, 1)
  /\ t_pc' = "done"
  /\ UNCHANGED <<TreeArguments, root_node, nodes, nodes_bfs,
                 current_number_of_leaves, max_leaves_reached, leaves,
                 t_clipped, t_noise>>
  /\ UNCHANGED <<emVars, trVars, cVars>>

NextTree ==
  \/ FitDFS
  \/ MakeTreeBFS
  \/ ExpandStop
  \/ ExpandSmallNode
  \/ ExpandMaxDepth
  \/ ExpandNoSplit
  \/ ExpandSplit
  \/ AssignRemaining
  \/ FitClip
  \/ FitNoise
  \/ FitShrink

SpecTree == InitTree /\ [][NextTree]_vars

----------------------------------------------------------------------------
(* GradientBoostingEnsemble.Combine_3_trees and SplitNode *)

\* the data sets the 3-node trees were fitted on: rows of two columns, the
\* first one 0 throughout, so that the norm of lines 284-286 is an integer
CombineData ==
  {<<<<0, 1>>>>, <<<<0, 0>>, <<0, 1>>>>, <<<<0, 1>>, <<0, 1>>>>}

\* the node identities in a list of nodes moved by offset
Relocate(built, offset) ==
  [k \in 1 .. Len(built) |->
     [built[k] EXCEPT
        !.left_child = IF IsNone(@) THEN None ELSE Some(Get(@) + offset),
        !.right_child = IF IsNone(@) THEN None ELSE Some(Get(@) + offset)]]

\* Fit with use_3_trees (lines 581-595) for tree t on the rows X, each of
\* gradient -1: the node lists it may leave, the root last
ThreeTrees(X, t) ==
  LET grads == [i \in 1 .. Len(X) |-> -1]
      processed(built) ==
        LET ls == Mask([k \in 1 .. Len(built) |-> k],
                       [k \in 1 .. Len(built) |-> Truthy(built[k].prediction)])
            clipped == ClipLeaves(built, ls, ClipThreshold(t), 1)
            noised == AddLaplacianNoise(clipped, ls,
                                        LaplaceDraws(Len(ls), laplace_scale), 1)
        IN Shrink(noised, ls, 1)
  IN {processed(built) : built \in MakeTreeDFS(X, grads, 1, 2, TRUE, 0)}

\* the forests of n trees: the heap holding the nodes of trees 1 .. n and
\* the root of each tree
RECURSIVE Forests(_)
Forests(n) ==
  IF n = 0 THEN {[heap |-> <<>>, roots |-> <<>>]}
  ELSE UNION {
         {[heap |-> f.heap \o Relocate(built, Len(f.heap)),
           roots |-> Append(f.roots, Len(f.heap) + Len(built))] :
            built \in UNION {ThreeTrees(X, n - 1) : X \in CombineData}} :
         f \in Forests(n - 1)}

\* the lists of trees Combine_3_trees may be called with
CombineForests == UNION {Forests(n) : n \in 0 .. MaxCombine}

CombineArguments == <<c_max_depth, c_trees, c_before>>

InitCombine ==
  /\ IdleEMVars
  /\ IdleTrain
  /\ IdleTree
  /\ c_pc = "for"
  /\ c_max_depth \in 0 .. MaxDepth
  /\ \E f \in CombineForests :
       /\ c_trees = f.roots
       /\ c_heap = f.heap
       /\ c_before = f.heap
  /\ c_self_trees = <<>>
  /\ c_index = 0
  /\ c_copy = <<>>
  /\ queue_children = <<>>
  /\ c_depth = 0
  /\ c_noise = <<>>
  /\ c_grafts = <<>>

\* X.any(): some element of the rows is not 0
AnyNonZero(X) == \E i \in 1 .. Len(X) : \E j \in 1 .. Len(X[i]) : X[i][j] # 0

\* np.matmul(np.transpose(X), X) of rows of two columns
Gram(X) ==
  [p \in 1 .. 2 |-> [q \in 1 .. 2 |->
     Sum([i \in 1 .. Len(X) |-> X[i][p] * X[i][q]])]]

\* lines 284-286: the Frobenius norm of the difference of the two products,
\* an integer for the rows of CombineData
GramDistance(A, B) ==
  LET squares == Sum([p \in 1 .. 2 |->
                   Sum([q \in 1 .. 2 |->
                     (Gram(A)[p][q] - Gram(B)[p][q])
                       * (Gram(A)[p][q] - Gram(B)[p][q])])])
  IN CHOOSE r \in 0 .. squares : r * r = squares

\* lines 278-297: the candidates of the pool for a child with rows X;
\* exp_gain is counted in units of ln 2 with
\* privacy_budget_for_node / (2 * delta_g) = ln 2
RECURSIVE PoolCandidates(_, _, _, _)
PoolCandidates(h, pool, X, candidate_index) ==
  IF candidate_index >= Len(pool) THEN <<>>
  ELSE LET root == h[c_trees[pool[candidate_index + 1]]] IN
       (IF ~AnyNonZero(Get(root.X)) THEN <<>>
        ELSE <<[candidate_index |-> candidate_index, index |-> root.index,
                value |-> root.value,
                gain |-> GramDistance(X, Get(root.X))]>>)
       \o PoolCandidates(h, pool, X, candidate_index + 1)

\* `not candidate['index']`, `not candidate['value']`: None or 0
Falsy(o) == IsNone(o) \/ Get(o) = 0

\* list.pop(i), i counted from 0
Pop(s, i) == SubSeq(s, 1, i) \o SubSeq(s, i + 2, Len(s))

\* SplitNode, lines 340-380: the heap it leaves; the
\* two children are the last two nodes of the heap
SplitNode(h, node, index, value, t) ==
  LET X == Get(h[node].X)
      grads == Get(h[node].gradients)
      lhs == LhsMask(X, index, value)
      rhs == RhsMask(X, index, value)
      left_child == Len(h) + 1
      right_child == Len(h) + 2
      split == [h EXCEPT ![node].prediction = None,
                         ![node].index = Some(index),
                         ![node].value = Some(value),
                         ![node].left_child = Some(left_child),
                         ![node].right_child = Some(right_child)]
               \o <<DecisionNode(Some(Mask(X, lhs)), Some(Mask(grads, lhs)),
                                 None, None, None, None, None,
                                 Some(GetLeafPrediction(Mask(grads, lhs)))),
                    DecisionNode(Some(Mask(X, rhs)), Some(Mask(grads, rhs)),
                                 None, None, None, None, None,
                                 Some(GetLeafPrediction(Mask(grads, rhs))))>>
      children == <<left_child, right_child>>
      clipped == ClipLeaves(split, children, ClipThreshold(t), 1)
  IN Shrink(AddLaplacianNoise(clipped, children, LaplaceDraws(2, laplace_scale), 1),
            children, 1)

\* lines 274-311, one child of the pair: the heap and the pool it may
\* leave, the nodes it puts into the queue, and the stream positions of
\* the noise SplitNode (line 376) adds; returned is what the selector
\* returned at line 298, None also when it was not called
Graft(h, pool, child, t) ==
  LET unchanged == [heap |-> h, copy |-> pool, put |-> <<>>, noise |-> <<>>,
                    returned |-> None] IN
  IF Len(pool) = 0 \/ IsNone(child) THEN {unchanged}
  ELSE IF ~AnyNonZero(Get(h[Get(child)].X)) THEN {unchanged}
  ELSE LET probabilities == PoolCandidates(h, pool, Get(h[Get(child)].X), 0)
           gains == [k \in 1 .. Len(probabilities) |-> probabilities[k].gain]
           grafted(candidate) ==
             IF Falsy(candidate.index) \/ Falsy(candidate.value)
             THEN [unchanged EXCEPT !.returned = Some(candidate)]
             ELSE [heap |-> SplitNode(h, Get(child), Get(candidate.index),
                                      Get(candidate.value), t),
                   copy |-> Pop(pool, candidate.candidate_index),
                   put |-> <<Some(Len(h) + 1), Some(Len(h) + 2)>>,
                   noise |-> <<LaplacePositions(2)>>,
                   returned |-> Some(candidate)]
       IN {IF IsNone(returned) THEN unchanged
           ELSE grafted(probabilities[Get(returned)]) :
             returned \in {ExponentialMechanism(gains, MaxGain(gains), TRUE,
                                                Draw(random_prob)) :
                             random_prob \in Draws}}

\* lines 258-259: copy = list(np.copy(trees)); copy.pop(index)
PoolWithout(index) ==
  Pop([k \in 1 .. Len(c_trees) |-> k], index)

\* the test of line 270 written with > instead of ==
DepthExceeded(depth, limit) == depth > limit

\* line 270: depth == self.max_depth
DepthReached(depth, limit) == depth = limit

\* lines 260-261: the pool is empty, continue
CombineSkipTree ==
  /\ c_pc = "for" /\ c_index < Len(c_trees)
  /\ Len(PoolWithout(c_index)) = 0
  /\ c_copy' = PoolWithout(c_index)
  /\ c_index' = c_index + 1
  /\ UNCHANGED <<CombineArguments, c_pc, c_heap, c_self_trees, queue_children,
                 c_depth, c_noise, c_grafts>>
  /\ UNCHANGED <<emVars, trVars, tVars>>

\* lines 262-265: the two children of the root are queued
CombineStartTree ==
  /\ c_pc = "for" /\ c_index < Len(c_trees)
  /\ Len(PoolWithout(c_index)) # 0
  /\ c_copy' = PoolWithout(c_index)
  /\ queue_children' = <<c_heap[c_trees[c_index + 1]].left_child,
                         c_heap[c_trees[c_index + 1]].right_child>>
  /\ c_depth' = 1
  /\ c_pc' = "while"
  /\ UNCHANGED <<CombineArguments, c_heap, c_self_trees, c_index, c_noise,
                 c_grafts>>
  /\ UNCHANGED <<emVars, trVars, tVars>>

\* lines 269-271 and 314: the while loop ends, the tree is appended
CombineAppendTree ==
  /\ c_pc = "while"
  /\ \/ queue_children = <<>>
     \/ DepthReached(c_depth, c_max_depth)
     \/ Len(c_copy) = 0
  /\ c_self_trees' = Append(c_self_trees, c_trees[c_index + 1])
  /\ c_index' = c_index + 1
  /\ c_pc' = "for"
  /\ UNCHANGED <<CombineArguments, c_heap, c_copy, queue_children, c_depth,
                 c_noise, c_grafts>>
  /\ UNCHANGED <<emVars, trVars, tVars>>

\* lines 272-313: a pair of children is taken from the queue and each child
\* is grafted or not
CombinePair ==
  /\ c_pc = "while"
  /\ queue_children # <<>>
  /\ ~DepthReached(c_depth, c_max_depth)
  /\ Len(c_copy) # 0
  /\ \E left \in Graft(c_heap, c_copy, queue_children[1], c_index) :
       \E right \in Graft(left.heap, left.copy, queue_children[2], c_index) :
         /\ c_heap' = right.heap
         /\ c_copy' = right.copy
         /\ queue_children' = SubSeq(queue_children, 3, Len(queue_children))
                                \o left.put \o right.put
         /\ c_noise' = c_noise \o left.noise \o right.noise
         /\ c_grafts' = <<[child |-> queue_children[1], pool |-> c_copy,
                           copy |-> left.copy, returned |-> left.returned],
                          [child |-> queue_children[2], pool |-> left.copy,
                           copy |-> right.copy, returned |-> right.returned]>>
  /\ c_depth' = c_depth + 1
  /\ UNCHANGED <<CombineArguments, c_pc, c_self_trees, c_index>>
  /\ UNCHANGED <<emVars, trVars, tVars>>

\* self.trees without the fallback of lines 315-316
NoFallback(self_trees, trs) == self_trees

\* lines 315-316: if not self.trees: self.trees = trees
Fallback(self_trees, trs) == IF self_trees = <<>> THEN trs ELSE self_trees

\* lines 257 and 315-316: the for loop is over
CombineReturn ==
  /\ c_pc = "for" /\ c_index = Len(c_trees)
  /\ c_self_trees' = Fallback(c_self_trees, c_trees)
  /\ c_pc' = "done"
  /\ UNCHANGED <<CombineArguments, c_heap, c_index, c_copy, queue_children,
                 c_depth, c_noise, c_grafts>>
  /\ UNCHANGED <<emVars, trVars, tVars>>

NextCombine ==
  \/ CombineSkipTree
  \/ CombineStartTree
  \/ CombineAppendTree
  \/ CombinePair
  \/ CombineReturn

SpecCombine == InitCombine /\ [][NextCombine]_vars

----------------------------------------------------------------------------
(* Claims about tree growth and leaf post-processing *)

\* Fit has built the tree
TreeBuilt == t_pc \in {"built", "clipped", "noised", "done"}

\* the node Fit's construction starts from: the depth-0 node that
\* MakeTreeBFS creates first, or the node MakeTreeDFS returns
DepthZeroNode == IF use_bfs THEN 1 ELSE Len(heap)

\* the childless nodes of the structure grown from node id
RECURSIVE ChildlessNodes(_, _)
ChildlessNodes(h, id) ==
  IF IsNone(h[id].left_child) /\ IsNone(h[id].right_child) THEN {id}
  ELSE (IF IsNone(h[id].left_child) THEN {}
        ELSE ChildlessNodes(h, Get(h[id].left_child)))
       \cup (IF IsNone(h[id].right_child) THEN {}
             ELSE ChildlessNodes(h, Get(h[id].right_child)))

\* C6: a tree built best-leaf-first with max_leaves = k never has more than
\* k childless nodes in the structure grown from the depth-0 node (so that
\* with max_leaves = 2 a tree whose root was split has exactly 2)
C6_AtMostMaxLeaves ==
  (TreeBuilt /\ use_bfs /\ max_leaves # 0) =>
    Cardinality(ChildlessNodes(heap, DepthZeroNode)) <= max_leaves

\* C7: post-processing runs clip, then noise, then shrink: after the clip
\* and before the noise every processed leaf is within the threshold
\* l2_threshold * (1 - learning_rate)^tree_index, and the final value of a
\* processed leaf is learning_rate * (clipped value + its noise draw)
C7_ClipNoiseShrink ==
  /\ t_pc = "clipped" =>
       \A k \in 1 .. Len(leaves) :
         RLe(RAbs(Get(heap[leaves[k]].prediction)), ClipThreshold(t_index))
  /\ t_pc = "done" =>
       \A k \in 1 .. Len(leaves) :
         REq(Get(heap[leaves[k]].prediction),
             RMul(learning_rate,
                  RAdd(Get(t_clipped[leaves[k]].prediction), t_noise[k])))

\* how often node id is in the list ls
Occurrences(ls, id) == Cardinality({k \in 1 .. Len(ls) : ls[k] = id})

\* C11: Fit post-processes every leaf of the tree exactly once: when Fit
\* has returned, every childless node of the structure grown from the
\* depth-0 node is exactly once in the list that ClipLeaves,
\* AddLaplacianNoise and Shrink went through
C11_EachLeafProcessedOnce ==
  t_pc = "done" =>
    \A id \in ChildlessNodes(heap, DepthZeroNode) : Occurrences(leaves, id) = 1

\* a leaf: prediction set, no children
IsLeaf(node) ==
  /\ ~IsNone(node.prediction)
  /\ IsNone(node.left_child) /\ IsNone(node.right_child)

\* an internal node: split index and value set, two children, no prediction
IsInternal(node) ==
  /\ ~IsNone(node.index) /\ ~IsNone(node.value)
  /\ ~IsNone(node.left_child) /\ ~IsNone(node.right_child)
  /\ IsNone(node.prediction)

\* the nodes of the registry self.nodes and their children
RegistryAndChildren ==
  {nodes[k] : k \in 1 .. Len(nodes)}
    \cup {Get(heap[nodes[k]].left_child) :
            k \in {j \in 1 .. Len(nodes) : ~IsNone(heap[nodes[j]].left_child)}}
    \cup {Get(heap[nodes[k]].right_child) :
            k \in {j \in 1 .. Len(nodes) : ~IsNone(heap[nodes[j]].right_child)}}

\* C12: when the construction of the tree is over, every node of the
\* registry and every child of such a node is a leaf or an internal node,
\* and not both
C12_NodesLeafOrInternal ==
  t_pc = "built" =>
    \A id \in RegistryAndChildren : IsLeaf(heap[id]) # IsInternal(heap[id])

\* the gain of the best split a queued node was created with (lines 677-678,
\* 748-749 keep its index and value); the order of exp_gain is the order
\* of the gain
NodeGain(id) ==
  ComputeGain(Get(heap[id].index), Get(heap[id].value), Get(heap[id].X),
              Get(heap[id].gradients))

\* C14: the node _ExpandTreeBFS takes from the queue has the highest
\* best-split gain of all queued nodes
C14_TakesHighestGain ==
  (t_pc = "expand" /\ nodes_bfs # <<>> /\ ~max_leaves_reached) =>
    \A k \in 1 .. Len(nodes_bfs) :
      RLe(NodeGain(nodes_bfs[k]), NodeGain(current_node))

\* the nodes of the structure grown from node id
RECURSIVE Reachable(_, _)
Reachable(h, id) ==
  {id}
    \cup (IF IsNone(h[id].left_child) THEN {}
          ELSE Reachable(h, Get(h[id].left_child)))
    \cup (IF IsNone(h[id].right_child) THEN {}
          ELSE Reachable(h, Get(h[id].right_child)))

\* C18: after best-leaf-first construction root_node is the depth-0 node
\* MakeTreeBFS created first, and every node of the registry is reachable
\* from root_node through child links
C18_RootIsDepthZeroNode ==
  (TreeBuilt /\ use_bfs) =>
    /\ Get(root_node) = DepthZeroNode
    /\ \A k \in 1 .. Len(nodes) : nodes[k] \in Reachable(heap, Get(root_node))

\* C19: at every internal node of a built tree, _Predict sends a row to the
\* left child exactly when the operator the node's rows were partitioned
\* with in training puts the row on the left
C19_PredictFollowsPartition ==
  TreeBuilt =>
    \A id \in 1 .. Len(heap) :
      (~IsNone(heap[id].left_child) /\ ~IsNone(heap[id].right_child)) =>
        \A i \in 1 .. Len(t_X) :
          ~GoesRight(heap[id], t_X[i])
            = LhsMask(<<t_X[i]>>, Get(heap[id].index), Get(heap[id].value))[1]

----------------------------------------------------------------------------
(* Claims about the training loop *)

\* the sum of the per-tree predictions of trs for row i of X
TreeSum(trs, X, i) == SumTreePredictions(trs, X, i, 1)

\* C4: Predict returns, for every row, the initial score plus the sum of
\* the per-tree predictions of the trees in the tree list, for any tree
\* list including the empty one, where the result is the initial score
C4_PredictIsScorePlusTrees ==
  tr_predict # <<>> =>
    LET call == tr_predict[1] IN
    /\ call.result.error = ""
    /\ call.result.value =
         [i \in 1 .. Len(call.X) |-> init_score[i] + TreeSum(call.trees, call.X, i)]

\* an iteration that fitted a tree and removed it again
RejectStep ==
  /\ tr_pc = "loop" /\ tree_index' = tree_index + 1
  /\ tr_last' # <<>> /\ tr_last'[1].outcome = "rejected"

\* an iteration that fitted a tree and kept it
AcceptStep ==
  /\ tr_pc = "loop" /\ tree_index' = tree_index + 1
  /\ tr_last' # <<>> /\ tr_last'[1].outcome = "accepted"

\* C5: when the fitted tree's validation error is not strictly lower than
\* the best of the cycle, the tree list, the working set and the best error
\* are as before the iteration and the refresh flag is cleared; no tree
\* removed this way is ever in the tree list afterwards
C5_RejectFrame ==
  [][/\ RejectStep =>
          /\ trees' = trees
          /\ X_ensemble' = X_ensemble /\ y_ensemble' = y_ensemble
          /\ prev_rmse' = prev_rmse
          /\ update_gradients' = FALSE
          /\ tree_index \in tr_rejected'
     /\ \A k \in 1 .. Len(trees') : trees'[k].tree_index \notin tr_rejected'
    ]_vars

C5_Witness ==
  /\ tr_pc = "done"
  /\ tr_rejected # {}
  /\ trees # <<>>
  /\ tr_last # <<>> /\ tr_last[1].outcome = "rejected"

\* C9 as stated: when a tree with index > 0 is accepted, the rows removed
\* from the working set are all the rows sampled for it
C9_RemovesSampledRows ==
  [][(AcceptStep /\ tree_index > 0) =>
       X_ensemble' = Delete(LoopHead.X_ensemble, tr_last'[1].rows)]_vars

\* C9 amended: when a tree with index > 0 is accepted, the rows removed
\* from the working set are the sampled rows that passed gradient based
\* filtering; the sampled rows the filter dropped stay in the working set
C9_RemovesFilteredSample ==
  [][(AcceptStep /\ tree_index > 0) =>
       LET head == LoopHead
           rows == tr_last'[1].rows
           passed == {i \in 1 .. Len(rows) :
                        Abs(Get(head.gradients)[rows[i]]) <= l2_threshold}
           removed == {rows[i] : i \in passed}
       IN /\ X_ensemble' = Delete(head.X_ensemble,
                                  [i \in 1 .. Len(rows) |->
                                     IF i \in passed THEN rows[i] ELSE 0])
          /\ \A i \in 1 .. Len(rows) :
               (i \notin passed /\ rows[i] \notin removed) =>
                 \E k \in 1 .. Len(X_ensemble') :
                   X_ensemble'[k] = head.X_ensemble[rows[i]]
     ]_vars

C9_Witness ==
  /\ tr_last # <<>>
  /\ tr_last[1].outcome = "accepted"
  /\ tr_last[1].tree_index > 0
  /\ Len(tr_last[1].selected_rows) > 0
  /\ Len(tr_last[1].selected_rows) < Len(tr_last[1].rows)

\* the quotas of the trees of cycle c, the first cycle being 0
CycleQuotas(c) ==
  [k \in 1 .. nb_trees_per_ensemble |->
     NumberOfRows(c * nb_trees_per_ensemble + k - 1)]

\* the cycles all of whose trees are among the nb_trees trees
FullCycles == {c \in 0 .. nb_trees : (c + 1) * nb_trees_per_ensemble <= nb_trees}

\* C13: with balance_partition every tree of a full cycle but the last
\* gets floor(|X| / nb_trees_per_ensemble) rows and the last one the
\* remainder in addition, so that the quotas of the cycle sum to |X|
C13_BalancedQuotasSumToRows ==
  (tr_pc = "loop" /\ balance_partition) =>
    \A c \in FullCycles :
      /\ \A k \in 1 .. (nb_trees_per_ensemble - 1) :
           CycleQuotas(c)[k] = NRows \div nb_trees_per_ensemble
      /\ Sum(CycleQuotas(c)) = NRows

\* the rows the k-th tree kept in the running cycle was fitted on
FittedRows(k) == {tr_fitted[k].X_tree[i] : i \in 1 .. Len(tr_fitted[k].X_tree)}

\* C20: within one cycle, the rows two different kept trees were fitted on
\* are disjoint, whatever trees were removed or skipped in between: the
\* kept trees are trees of the list and of one cycle, and the working set
\* holds the training rows no kept tree of the cycle was fitted on
C20_AcceptedTreesDisjoint ==
  /\ \A a, b \in 1 .. Len(tr_fitted) :
       a # b => FittedRows(a) \cap FittedRows(b) = {}
  /\ \A a \in 1 .. Len(tr_fitted) :
       /\ \E k \in 1 .. Len(trees) :
            trees[k].tree_index = tr_fitted[a].tree_index
       /\ tr_fitted[a].tree_index \div nb_trees_per_ensemble
            = tr_fitted[1].tree_index \div nb_trees_per_ensemble
  /\ (tr_pc # "idle" /\ tree_index > 0) =>
       {X_ensemble[i] : i \in 1 .. Len(X_ensemble)}
         = {X_train[i] : i \in 1 .. Len(X_train)}
             \ UNION {FittedRows(a) : a \in 1 .. Len(tr_fitted)}

C20_Witness ==
  /\ Len(tr_fitted) >= 2
  /\ FittedRows(1) # {} /\ FittedRows(2) # {}

\* C21: whenever Train samples rows for a tree with a non-zero quota
\* (line 185), the working set is not empty, so np.random.randint does not
\* raise, in every cycle and for every quota rule
C21_SamplingNeverFails ==
  /\ (tr_pc = "loop" /\ tree_index < nb_trees /\ NumberOfRows(tree_index) > 0
        /\ LoopHead.error = "")
       => Len(LoopHead.X_ensemble) > 0
  /\ ~(tr_pc = "raised" /\ tr_last # <<>> /\ tr_last[1].outcome = "ValueError")

----------------------------------------------------------------------------
(* Claims about the combination of 3-node trees *)

\* the positions of a list of positions, as a set
PositionSet(ps) == {ps[k] : k \in 1 .. Len(ps)}

\* C15: AddLaplacianNoise never resets the random source, so two of its
\* invocations (here by two grafts of one Combine_3_trees) draw from
\* different positions of the random stream
C15_FreshNoiseDraws ==
  \A i, j \in 1 .. Len(c_noise) :
    i # j => PositionSet(c_noise[i]) \cap PositionSet(c_noise[j]) = {}

\* C8: Combine_3_trees called with a list of one tree, or of none, leaves
\* self.trees equal to the list and changes no node of the tree: no graft,
\* no change of a leaf prediction
C8_SingleTreeKept ==
  Len(c_trees) <= 1 =>
    /\ c_heap = c_before
    /\ c_pc = "done" => c_self_trees = c_trees

C8_Witness ==
  /\ c_pc = "done"
  /\ Len(c_trees) = 1
  /\ c_self_trees = c_trees
  /\ c_heap = c_before

\* C17: whenever the selector returns a candidate with a recorded
\* (feature, value) pair, the candidate is removed from the pool and the
\* frontier node is split with that pair, also when the feature index or
\* the value is 0
C17_ReturnedCandidateGrafted ==
  \A k \in 1 .. Len(c_grafts) :
    LET graft == c_grafts[k] IN
    (/\ ~IsNone(graft.returned)
     /\ ~IsNone(Get(graft.returned).index)
     /\ ~IsNone(Get(graft.returned).value)) =>
      /\ graft.copy = Pop(graft.pool, Get(graft.returned).candidate_index)
      /\ c_heap[Get(graft.child)].index = Get(graft.returned).index
      /\ c_heap[Get(graft.child)].value = Get(graft.returned).value
      /\ ~IsNone(c_heap[Get(graft.child)].left_child)
      /\ ~IsNone(c_heap[Get(graft.child)].right_child)

\* the depth of the structure grown from node id: 0 for a childless node
RECURSIVE Depth(_, _)
Depth(h, id) ==
  LET below(child) == IF IsNone(child) THEN 0 ELSE 1 + Depth(h, Get(child))
      left == below(h[id].left_child)
      right == below(h[id].right_child)
  IN IF left >= right THEN left ELSE right

\* C16: with max_depth >= 1 no tree of the ensemble is ever deeper than
\* max_depth during and after Combine_3_trees, whatever the pool and the
\* selector's outcomes; the while loop runs at most max_depth - 1 times for
\* a tree, and the queue holds its entries in pairs, so that the two get()
\* of lines 272-273 never block
C16_DepthBounded ==
  /\ c_max_depth >= 1 =>
       /\ \A k \in 1 .. Len(c_trees) : Depth(c_heap, c_trees[k]) <= c_max_depth
       /\ c_depth <= c_max_depth
  /\ Len(queue_children) % 2 = 0

C16_Witness ==
  /\ c_pc = "done"
  /\ c_max_depth >= 2
  /\ c_heap # c_before
  /\ \E k \in 1 .. Len(c_self_trees) :
       Depth(c_heap, c_self_trees[k]) = c_max_depth

====
